---- MODULE Spec2Model ----
(***************************************************************************)
(* ElementaryCellularAutomaton (src/cellular_automaton.js): the engine's   *)
(* constructor, nextGeneration and getCurrentGeneration, together with a   *)
(* caller that holds the arrays these operations hand out.                 *)
(*                                                                         *)
(* Arrays are objects on a heap and are named by their address, so that    *)
(* two references to one array can be told from two equal arrays.          *)
(* A JavaScript number that may be fractional (the width argument) is a    *)
(* fixed-point value: the integer x stands for the number x / Unit.        *)
(* Array elements, array lengths, indices and rule numbers are plain       *)
(* integers.                                                               *)
(***************************************************************************)
EXTENDS Integers, Sequences, FiniteSets

VARIABLES
    pc,                 \* "new": before `new`; "ca": an instance exists; "thrown": the constructor threw
    rule,               \* this.rule
    width,              \* this.width (fixed point)
    generation,         \* this.generation (an address)
    heap,               \* address -> contents of the array at that address
    initialGeneration,  \* the caller's array passed to the constructor (an address), if it keeps it
    returned,           \* the array the latest nextGeneration call returned (an address)
    copies,             \* the arrays getCurrentGeneration returned, per caller variable
    error,              \* what the latest call threw
    lastCall,           \* the latest call and its arguments
    reads,              \* the indices of this.generation the latest nextGeneration read, per cell
    mutations,          \* number of writes the caller has made to arrays it holds
    other,              \* a second instance: its rule, width and generation (an address)
    frame,              \* the running nextGeneration call: its i and nextGen, and the generation it began with
    driver              \* the running runAutomaton call: its arguments, its i and the console

vars == <<pc, rule, width, generation, heap, initialGeneration, returned,
          copies, error, lastCall, reads, mutations, other, frame, driver>>

----------------------------------------------------------------------------
(* Bounds of the model.                                                    *)

Unit == 2               \* resolution of fixed-point numbers: x stands for x / Unit
MaxWidth == 4           \* largest width argument
MaxInitLen == 4         \* longest initialGeneration argument
MaxCallerWidth == 2     \* largest width argument of the mutating caller
MaxArrayLen == 3        \* the caller does not grow an array beyond this length
MaxMutations == 1       \* the caller writes to arrays at most this often
MaxSharedWidth == 2     \* largest width when the caller keeps the array it constructed from
MaxLoopWidth == 7       \* largest width when nextGeneration is followed pass by pass
MaxDriverWidth == 3     \* largest width runAutomaton is called with
MaxGenerations == 3     \* most generations runAutomaton is called with

----------------------------------------------------------------------------
(* Values.                                                                 *)

Null == 0               \* no array
Undefined == -1         \* the value of an array read outside 0..length-1
NaN == -2               \* parseInt of a string with no leading digit

Num(n) == n * Unit                  \* the integer n as a number
IsInteger(x) == x % Unit = 0
IntOf(x) == x \div Unit             \* the integer an integral number stands for

RuleNumbers == -1..256
CallerRules == {30, 90}            \* the rules the mutating caller constructs with
Widths == (-Unit)..Num(MaxWidth)
CallerWidths == 1..(Num(MaxCallerWidth) + 1)
SharedWidths == {Num(1), Num(MaxSharedWidth)}      \* widths of the two instances
DriverRules == {30, 90, 110}       \* the rules runAutomaton is called with
LoopRules == {30, 90}              \* the rules constructed with when nextGeneration is followed pass by pass
Bit == {0, 1}
Slots == {"a", "b"}
Addr == 1..(4 + Cardinality(Slots))

RECURSIVE Seqs(_, _)
Seqs(S, n) == IF n = 0 THEN {<<>>}
              ELSE LET shorter == Seqs(S, n - 1)
                   IN  shorter \cup {Append(s, x) : s \in {t \in shorter : Len(t) = n - 1}, x \in S}

Fill(n, v) == [i \in 1..n |-> v]                         \* Array(n).fill(v)
ArrayGet(arr, i) == IF i \in 0..(Len(arr) - 1) THEN arr[i + 1] ELSE Undefined   \* arr[i]
Reverse(s) == [i \in 1..Len(s) |-> s[Len(s) + 1 - i]]   \* Array.prototype.reverse
Slice0_Tail(arr, end) == SubSeq(arr, Len(arr) - end + 1, Len(arr))   \* the last `end` values instead of the first
Slice0(arr, end) == SubSeq(arr, 1, IF end < Len(arr) THEN end ELSE Len(arr))   \* arr.slice(0, end), end >= 0

JsMod(a, b) == IF a >= 0 THEN a % b ELSE 0 - ((0 - a) % b)   \* a % b of JavaScript, b > 0

NoInstance == [rule |-> <<>>, width |-> 0, generation |-> Null]   \* no second instance yet
NoFrame == [i |-> 0, nextGen |-> Null, old |-> <<>>]               \* no nextGeneration call is running
NoDriver == [pc |-> "idle", rule |-> 0, width |-> 0, generations |-> 0, i |-> 0, calls |-> 0,
             console |-> <<>>]

----------------------------------------------------------------------------
(* _getRuleArray: toString(2), padStart(8, '0'), split, map(Number),       *)
(* reverse.                                                                *)

RECURSIVE ToString2(_)
ToString2(n) == IF n < 2 THEN <<IF n = 1 THEN "1" ELSE "0">>
                ELSE Append(ToString2(n \div 2), IF n % 2 = 1 THEN "1" ELSE "0")

PadStart_None(s, n, c) == s      \* toString(2) without padStart
PadStart(s, n, c) == IF Len(s) >= n THEN s ELSE [i \in 1..(n - Len(s)) |-> c] \o s

Number(c) == IF c = "1" THEN 1 ELSE 0

getRuleArray(ruleNumber) ==
    LET str == PadStart(ToString2(ruleNumber), 8, "0")
        bits == [i \in 1..Len(str) |-> Number(str[i])]
    IN  Reverse(bits)

----------------------------------------------------------------------------
(* _createInitialGeneration.                                               *)

MiddleIndex_Low(w) == (w - 1) \div 2     \* the lower middle cell of an even width
MiddleIndex(w) == w \div 2        \* Math.floor(width / 2), width an integer

createInitialGeneration(w) ==
    [i \in 1..w |-> IF i - 1 = MiddleIndex(w) THEN 1 ELSE 0]

----------------------------------------------------------------------------
(* The heap.                                                               *)

Alloc(h) == CHOOSE a \in Addr : a \notin DOMAIN h /\ \A b \in Addr : b < a => b \in DOMAIN h
Store(h, a, arr) == [b \in DOMAIN h \cup {a} |-> IF b = a THEN arr ELSE h[b]]
Collect(h, roots) == [a \in DOMAIN h \cap roots |-> h[a]]
Roots(g, ig, r, cs) == ({g, ig, r, other.generation} \cup {cs[s] : s \in Slots}) \ {Null}

----------------------------------------------------------------------------
(* constructor.                                                            *)

RuleNumberInvalid_OffByOne(ruleNumber) == ruleNumber < 0 \/ ruleNumber > 256
RuleNumberInvalid(ruleNumber) == ruleNumber < 0 \/ ruleNumber > 255
WidthInvalid(w) == w <= 0

PaddingLength_Ceil(diff) == (diff + Unit) \div (2 * Unit)     \* Math.ceil(diff / 2)
PaddingLength(diff) == diff \div (2 * Unit)     \* Math.floor(diff / 2)

\* Lines 22-31: the array the constructor leaves in this.generation, or the
\* error "RangeError" when an Array(n) with a fractional n is asked for.
Adjust(gen, w) ==
    IF Num(Len(gen)) = w THEN [error |-> "none", gen |-> gen]
    ELSE IF Num(Len(gen)) < w
         THEN LET diff == w - Num(Len(gen))
                  padding == Fill(PaddingLength(diff), 0)
                  rest == diff - Num(Len(padding))
              IN  IF IsInteger(rest)
                  THEN [error |-> "none", gen |-> padding \o gen \o Fill(IntOf(rest), 0)]
                  ELSE [error |-> "RangeError", gen |-> <<>>]
         ELSE [error |-> "none", gen |-> Slice0(gen, IntOf(w))]

\* Line 19: initialGeneration ? [...initialGeneration] : this._createInitialGeneration(width)
FirstGeneration(h, ig, w) ==
    IF ig # Null THEN [error |-> "none", gen |-> h[ig]]
    ELSE IF IsInteger(w) THEN [error |-> "none", gen |-> createInitialGeneration(IntOf(w))]
    ELSE [error |-> "RangeError", gen |-> <<>>]

ConstructorError(h, ruleNumber, w, ig) ==
    IF RuleNumberInvalid(ruleNumber) THEN "InvalidRuleNumber"
    ELSE IF WidthInvalid(w) THEN "InvalidWidth"
    ELSE IF FirstGeneration(h, ig, w).error # "none" THEN "RangeError"
    ELSE Adjust(FirstGeneration(h, ig, w).gen, w).error

\* The constructor keeping the caller's array itself.
SpreadCopy_Alias(h, ig, a) == [addr |-> ig, heap |-> h]

\* Line 19: [...initialGeneration], a new array at address a.
SpreadCopy(h, ig, a) == [addr |-> a, heap |-> Store(h, a, h[ig])]

\* The fields and the heap a constructor call that does not throw leaves,
\* given the heap h and the caller's array ig (Null when omitted).
ConstructorResult(h, ruleNumber, w, ig) ==
    LET first == IF ig # Null THEN SpreadCopy(h, ig, Alloc(h))
                 ELSE [addr |-> Alloc(h), heap |-> Store(h, Alloc(h), FirstGeneration(h, ig, w).gen)]
        mismatch == Num(Len(first.heap[first.addr])) # w
        g == IF mismatch THEN Alloc(first.heap) ELSE first.addr
    IN  [rule |-> getRuleArray(ruleNumber),
         width |-> w,
         generation |-> g,
         heap |-> IF mismatch THEN Store(first.heap, g, Adjust(first.heap[first.addr], w).gen)
                  ELSE first.heap]

ConstructCall(ruleNumber, w, hasInitial, init, keep) ==
    /\ pc = "new"
    /\ LET h0 == IF hasInitial THEN Store(heap, Alloc(heap), init) ELSE heap
           ig == IF hasInitial THEN Alloc(heap) ELSE Null
           err == ConstructorError(h0, ruleNumber, w, ig)
           ca == ConstructorResult(h0, ruleNumber, w, ig)
           kept == IF keep THEN ig ELSE Null
       IN  /\ error' = err
           /\ initialGeneration' = kept
           /\ IF err = "none"
              THEN /\ pc' = "ca"
                   /\ rule' = ca.rule
                   /\ width' = ca.width
                   /\ generation' = ca.generation
                   /\ heap' = Collect(ca.heap, Roots(ca.generation, kept, Null, copies))
              ELSE /\ pc' = "thrown"
                   /\ heap' = Collect(h0, Roots(Null, kept, Null, copies))
                   /\ UNCHANGED <<rule, width, generation>>
    /\ lastCall' = [op |-> "constructor", ruleNumber |-> ruleNumber, width |-> w,
                    hasInitial |-> hasInitial, initialGeneration |-> init]
    /\ UNCHANGED <<returned, copies, reads, mutations, other, frame>>

Construct(ruleNumber, w, hasInitial, init, keep) ==
    ConstructCall(ruleNumber, w, hasInitial, init, keep) /\ UNCHANGED driver

----------------------------------------------------------------------------
(* nextGeneration.                                                         *)

LeftIndex_NoWrap(i, w) == JsMod(i - 1, w)     \* (i - 1) % width, which is -1 at cell 0
LeftIndex(i, w) == JsMod(i - 1 + w, w)
RightIndex(i, w) == JsMod(i + 1, w)

ToStr(v) == IF v = 0 THEN <<"0">>
            ELSE IF v = 1 THEN <<"1">>
            ELSE <<"u", "n", "d", "e", "f", "i", "n", "e", "d">>

\* parseInt(str, 2): the value of the longest prefix of binary digits
RECURSIVE DigitsValue(_)
DigitsValue(s) == IF s = <<>> THEN 0
                  ELSE 2 * DigitsValue(SubSeq(s, 1, Len(s) - 1)) + Number(s[Len(s)])

ParseInt2(str) ==
    LET isDigit(c) == c \in {"0", "1"}
        n == Cardinality({k \in 1..Len(str) : \A j \in 1..k : isDigit(str[j])})
    IN  IF n = 0 THEN NaN ELSE DigitsValue(SubSeq(str, 1, n))

NeighborhoodIndex(left, middle, right) == ParseInt2(ToStr(left) \o ToStr(middle) \o ToStr(right))

RuleIndex_OffByOne(neighborhoodIndex) == IF neighborhoodIndex = NaN THEN NaN ELSE 8 - neighborhoodIndex
RuleIndex(neighborhoodIndex) == IF neighborhoodIndex = NaN THEN NaN ELSE 7 - neighborhoodIndex

NextCell(r, gen, i, w) ==
    LET left == ArrayGet(gen, LeftIndex(i, w))
        middle == ArrayGet(gen, i)
        right == ArrayGet(gen, RightIndex(i, w))
    IN  ArrayGet(r, RuleIndex(NeighborhoodIndex(left, middle, right)))

\* A loop body that reads the cells left of i from the array being filled.
LoopBody_InPlace(r, gen, nextGen, i, w) ==
    [nextGen EXCEPT ![i + 1] =
        NextCell(r, [k \in 1..Len(gen) |-> IF k - 1 < i /\ k <= Len(nextGen) THEN nextGen[k] ELSE gen[k]], i, w)]

\* Lines 72-87: one pass of the loop body, for cell i.
LoopBody(r, gen, nextGen, i, w) == [nextGen EXCEPT ![i + 1] = NextCell(r, gen, i, w)]

\* Lines 71-88: the passes for the cells i..w-1.
RECURSIVE Loop(_, _, _, _, _)
Loop(r, gen, nextGen, i, w) ==
    IF i < w THEN Loop(r, gen, LoopBody(r, gen, nextGen, i, w), i + 1, w) ELSE nextGen

\* Lines 70-88: nextGen when the loop has ended.
NextGen(r, gen, w) == Loop(r, gen, Fill(w, 0), 0, w)

ReadsOf(w) == [k \in 1..w |-> <<LeftIndex(k - 1, w), k - 1, RightIndex(k - 1, w)>>]

\* nextGeneration filling one buffer that all calls share.
NewArray_Shared(h, g) == CHOOSE a \in Addr : \A b \in Addr : b <= a

\* nextGeneration filling the array that holds the current generation.
NewArray_Reuse(h, g) == g

\* Line 70: Array(this.width), a new array; g is this.generation.
NewArray(h, g) == Alloc(h)

\* nextGeneration reversing this.rule in place (Array.prototype.reverse) on each call.
NextGenerationCall_ReversesRule ==
    /\ pc = "ca"
    /\ lastCall' = [op |-> "nextGeneration"]
    /\ rule' = Reverse(rule)
    /\ IF IsInteger(width)
       THEN LET nextGen == NextGen(rule, heap[generation], IntOf(width))
                kept == Collect(heap, Roots(Null, initialGeneration, Null, copies))
                g == NewArray(kept, generation)
            IN  /\ heap' = Store(kept, g, nextGen)
                /\ generation' = g
                /\ returned' = g
                /\ reads' = ReadsOf(IntOf(width))
                /\ error' = "none"
       ELSE /\ error' = "RangeError"
            /\ UNCHANGED <<heap, generation, returned, reads>>
    /\ UNCHANGED <<pc, width, initialGeneration, copies, mutations, other, frame>>

NextGenerationCall ==
    /\ pc = "ca"
    /\ lastCall' = [op |-> "nextGeneration"]
    /\ IF IsInteger(width)
       THEN LET nextGen == NextGen(rule, heap[generation], IntOf(width))
                kept == Collect(heap, Roots(Null, initialGeneration, Null, copies))
                g == NewArray(kept, generation)
            IN  /\ heap' = Store(kept, g, nextGen)
                /\ generation' = g
                /\ returned' = g
                /\ reads' = ReadsOf(IntOf(width))
                /\ error' = "none"
       ELSE /\ error' = "RangeError"
            /\ UNCHANGED <<heap, generation, returned, reads>>
    /\ UNCHANGED <<pc, rule, width, initialGeneration, copies, mutations, other, frame>>

NextGeneration == NextGenerationCall /\ UNCHANGED driver

----------------------------------------------------------------------------
(* nextGeneration, statement by statement.                                 *)

\* Line 70.
BeginNextGeneration ==
    /\ pc = "ca"
    /\ IF IsInteger(width)
       THEN LET a == NewArray(heap, generation)
            IN  /\ heap' = Store(heap, a, Fill(IntOf(width), 0))
                /\ frame' = [i |-> 0, nextGen |-> a, old |-> heap[generation]]
                /\ pc' = "nextGeneration"
                /\ reads' = <<>>
                /\ UNCHANGED <<error, lastCall>>
       ELSE /\ error' = "RangeError"
            /\ lastCall' = [op |-> "nextGeneration"]
            /\ UNCHANGED <<heap, frame, pc, reads>>
    /\ UNCHANGED <<rule, width, generation, initialGeneration, returned, copies, mutations,
                   other, driver>>

\* Lines 71-88: the loop test and one pass.
CellStep ==
    /\ pc = "nextGeneration"
    /\ Num(frame.i) < width
    /\ LET w == IntOf(width)
           i == frame.i
       IN  /\ heap' = [heap EXCEPT ![frame.nextGen] = LoopBody(rule, heap[generation], @, i, w)]
           /\ reads' = Append(reads, <<LeftIndex(i, w), i, RightIndex(i, w)>>)
           /\ frame' = [frame EXCEPT !.i = i + 1]
    /\ UNCHANGED <<pc, rule, width, generation, initialGeneration, returned, copies, error,
                   lastCall, mutations, other, driver>>

\* Lines 71, 89-90: the loop test fails; assign and return.
EndNextGeneration ==
    /\ pc = "nextGeneration"
    /\ ~(Num(frame.i) < width)
    /\ generation' = frame.nextGen
    /\ returned' = frame.nextGen
    /\ heap' = Collect(heap, Roots(frame.nextGen, initialGeneration, Null, copies))
    /\ frame' = NoFrame
    /\ pc' = "ca"
    /\ error' = "none"
    /\ lastCall' = [op |-> "nextGeneration"]
    /\ UNCHANGED <<rule, width, initialGeneration, copies, reads, mutations, other, driver>>

----------------------------------------------------------------------------
(* getCurrentGeneration.                                                   *)

\* getCurrentGeneration returning this.generation itself.
CurrentGenerationCopy_Alias(h, g, a) == [addr |-> g, heap |-> h]

\* The array getCurrentGeneration returns: a new array at address a.
CurrentGenerationCopy(h, g, a) == [addr |-> a, heap |-> Store(h, a, h[g])]

GetCurrentGeneration(s) ==
    /\ pc = "ca"
    /\ LET kept == Collect(heap, Roots(generation, initialGeneration, returned,
                                        [copies EXCEPT ![s] = Null]))
           res == CurrentGenerationCopy(kept, generation, Alloc(kept))
       IN  /\ heap' = res.heap
           /\ copies' = [copies EXCEPT ![s] = res.addr]
    /\ lastCall' = [op |-> "getCurrentGeneration", slot |-> s]
    /\ error' = "none"
    /\ UNCHANGED <<pc, rule, width, generation, initialGeneration, returned, reads, mutations,
                   other, frame, driver>>

----------------------------------------------------------------------------
(* A second instance, constructed from the array the caller passed to the  *)
(* first one (or from none), and the calls on it.  The caller drops what   *)
(* these calls return.                                                     *)

\* The arrays held by the first instance and by the caller.
OtherRoots == ({generation, initialGeneration, returned} \cup {copies[s] : s \in Slots}) \ {Null}

OtherConstruct(ruleNumber, w) ==
    /\ pc = "ca"
    /\ other = NoInstance
    /\ LET err == ConstructorError(heap, ruleNumber, w, initialGeneration)
           ca == ConstructorResult(heap, ruleNumber, w, initialGeneration)
       IN  /\ error' = err
           /\ IF err = "none"
              THEN /\ other' = [rule |-> ca.rule, width |-> ca.width, generation |-> ca.generation]
                   /\ heap' = Collect(ca.heap, OtherRoots \cup {ca.generation})
              ELSE UNCHANGED <<other, heap>>
    /\ lastCall' = [op |-> "other.constructor", ruleNumber |-> ruleNumber, width |-> w]
    /\ UNCHANGED <<pc, rule, width, generation, initialGeneration, returned, copies, reads,
                   mutations, frame, driver>>

OtherNextGeneration ==
    /\ pc = "ca"
    /\ other # NoInstance
    /\ lastCall' = [op |-> "other.nextGeneration"]
    /\ IF IsInteger(other.width)
       THEN LET nextGen == NextGen(other.rule, heap[other.generation], IntOf(other.width))
                kept == Collect(heap, OtherRoots)
                g == NewArray(kept, other.generation)
            IN  /\ heap' = Store(kept, g, nextGen)
                /\ other' = [other EXCEPT !.generation = g]
                /\ error' = "none"
       ELSE /\ error' = "RangeError"
            /\ UNCHANGED <<heap, other>>
    /\ UNCHANGED <<pc, rule, width, generation, initialGeneration, returned, copies, reads,
                   mutations, frame, driver>>

OtherGetCurrentGeneration ==
    /\ pc = "ca"
    /\ other # NoInstance
    /\ lastCall' = [op |-> "other.getCurrentGeneration"]
    /\ error' = "none"
    /\ heap' = Collect(CurrentGenerationCopy(heap, other.generation, Alloc(heap)).heap,
                       OtherRoots \cup {other.generation})
    /\ UNCHANGED <<pc, rule, width, generation, initialGeneration, returned, copies, reads,
                   mutations, other, frame, driver>>

----------------------------------------------------------------------------
(* The caller keeps the array the latest nextGeneration returned in one of *)
(* its variables.                                                          *)

KeepReturned(s) ==
    /\ pc = "ca"
    /\ returned # Null
    /\ copies[s] # returned
    /\ copies' = [copies EXCEPT ![s] = returned]
    /\ heap' = Collect(heap, Roots(generation, initialGeneration, returned, copies'))
    /\ lastCall' = [op |-> "keep", slot |-> s]
    /\ UNCHANGED <<pc, rule, width, generation, initialGeneration, returned, error, reads,
                   mutations, other, frame, driver>>

----------------------------------------------------------------------------
(* The caller writes to an array it holds: arr[i] = v, arr.push(v),        *)
(* arr.pop().                                                              *)

Held == [returned |-> returned, a |-> copies["a"], b |-> copies["b"], initial |-> initialGeneration]

Mutate(which, arr) ==
    /\ pc = "ca"
    /\ mutations < MaxMutations
    /\ Held[which] # Null
    /\ arr # heap[Held[which]]
    /\ heap' = [heap EXCEPT ![Held[which]] = arr]
    /\ mutations' = mutations + 1
    /\ lastCall' = [op |-> "mutate", which |-> which]
    /\ UNCHANGED <<pc, rule, width, generation, initialGeneration, returned, copies, error, reads,
                   other, frame, driver>>

Overwrite(which) ==
    \E i \in 1..MaxArrayLen, v \in Bit :
        /\ Held[which] # Null
        /\ i <= Len(heap[Held[which]])
        /\ Mutate(which, [heap[Held[which]] EXCEPT ![i] = v])

Push(which) ==
    \E v \in Bit :
        /\ Held[which] # Null
        /\ Len(heap[Held[which]]) < MaxArrayLen
        /\ Mutate(which, Append(heap[Held[which]], v))

Pop(which) ==
    /\ Held[which] # Null
    /\ Len(heap[Held[which]]) > 0
    /\ Mutate(which, SubSeq(heap[Held[which]], 1, Len(heap[Held[which]]) - 1))

----------------------------------------------------------------------------
(* printGeneration and runAutomaton.  The console is the sequence of the   *)
(* lines logged so far, each with the function that logged it; driver.calls *)
(* counts the nextGeneration calls runAutomaton has made.                   *)

engine == <<pc, rule, width, generation, heap, initialGeneration, returned, copies, error,
            lastCall, reads, mutations, other, frame>>

\* cell === 1 ? '█' : ' ', with "#" standing for the block character.
Glyph(cell) == IF cell = 1 THEN "#" ELSE " "

\* this.generation.map(...).join(''): the line as the sequence of its characters.
Render(gen) == [k \in 1..Len(gen) |-> Glyph(gen[k])]

\* console.log(...) in printGeneration.
printGeneration(console) ==
    Append(console, [by |-> "printGeneration", line |-> Render(heap[generation])])

\* console.log(text) in runAutomaton.
Log(console, text) == Append(console, [by |-> "runAutomaton", line |-> <<text>>])

\* The loop running while i <= generations.
LoopCondition_Inclusive(i, generations) == i <= generations

\* Line 118: i < generations.
LoopCondition(i, generations) == i < generations

\* Line 112: the call runAutomaton(rule, width, generations) and its first log.
RunAutomaton ==
    /\ driver.pc = "idle"
    /\ pc = "new"
    /\ \E r \in DriverRules, w \in 1..MaxDriverWidth, n \in 0..MaxGenerations :
           driver' = [NoDriver EXCEPT !.pc = "new", !.rule = r, !.width = Num(w),
                                      !.generations = n,
                                      !.console = Log(<<>>, "Running")]
    /\ UNCHANGED engine

\* Line 113: const ca = new ElementaryCellularAutomaton(rule, width).
DriverNew ==
    /\ driver.pc = "new"
    /\ ConstructCall(driver.rule, driver.width, FALSE, <<>>, FALSE)
    /\ driver' = [driver EXCEPT !.pc = IF error' = "none" THEN "log" ELSE "thrown"]

\* Line 115: console.log("Initial Generation:").
DriverLog ==
    /\ driver.pc = "log"
    /\ driver' = [driver EXCEPT !.pc = "print", !.console = Log(@, "Initial Generation:")]
    /\ UNCHANGED engine

\* Line 116: ca.printGeneration().
DriverPrintInitial ==
    /\ driver.pc = "print"
    /\ driver' = [driver EXCEPT !.pc = "for", !.console = printGeneration(@)]
    /\ UNCHANGED engine

\* Line 118: the loop test.
DriverFor ==
    /\ driver.pc = "for"
    /\ driver' = [driver EXCEPT !.pc = IF LoopCondition(driver.i, driver.generations)
                                       THEN "nextGeneration" ELSE "end"]
    /\ UNCHANGED engine

\* Line 119: ca.nextGeneration().
DriverNextGeneration ==
    /\ driver.pc = "nextGeneration"
    /\ NextGenerationCall
    /\ driver' = [driver EXCEPT !.pc = IF error' = "none" THEN "printGeneration" ELSE "thrown",
                                !.calls = @ + 1]

\* Line 120 and the i++ of line 118: ca.printGeneration().
DriverPrintGeneration ==
    /\ driver.pc = "printGeneration"
    /\ driver' = [driver EXCEPT !.pc = "for", !.i = @ + 1, !.console = printGeneration(@)]
    /\ UNCHANGED engine

\* Line 122: console.log("--- End of Simulation ---"), and the return.
DriverEnd ==
    /\ driver.pc = "end"
    /\ driver' = [driver EXCEPT !.pc = "done", !.console = Log(@, "--- End of Simulation ---")]
    /\ UNCHANGED engine

----------------------------------------------------------------------------
(* Specifications.                                                         *)

Init ==
    /\ pc = "new"
    /\ rule = <<>>
    /\ width = 0
    /\ generation = Null
    /\ heap = <<>>
    /\ initialGeneration = Null
    /\ returned = Null
    /\ copies = [s \in Slots |-> Null]
    /\ error = "none"
    /\ lastCall = [op |-> "none"]
    /\ reads = <<>>
    /\ mutations = 0
    /\ other = NoInstance
    /\ frame = NoFrame
    /\ driver = NoDriver

New ==
    /\ pc = "new"
    /\ \E ruleNumber \in RuleNumbers, w \in Widths :
        \/ Construct(ruleNumber, w, FALSE, <<>>, FALSE)
        \/ \E init \in Seqs(Bit, MaxInitLen) : Construct(ruleNumber, w, TRUE, init, FALSE)

Next ==
    \/ New
    \/ NextGeneration
    \/ GetCurrentGeneration("a")

Spec == Init /\ [][Next]_vars

\* A caller that also writes to the arrays the operations returned.
NewCaller ==
    /\ pc = "new"
    /\ \E ruleNumber \in CallerRules, w \in CallerWidths :
        \/ Construct(ruleNumber, w, FALSE, <<>>, FALSE)
        \/ \E init \in Seqs(Bit, MaxCallerWidth + 1) : Construct(ruleNumber, w, TRUE, init, FALSE)

GetCopy == \E s \in Slots : GetCurrentGeneration(s)
CallerOverwrite == \E which \in DOMAIN Held : Overwrite(which)
CallerPush == \E which \in DOMAIN Held : Push(which)
CallerPop == \E which \in DOMAIN Held : Pop(which)

NextCaller ==
    \/ NewCaller
    \/ NextGeneration
    \/ GetCopy
    \/ CallerOverwrite
    \/ CallerPush
    \/ CallerPop

SpecCaller == Init /\ [][NextCaller]_vars

\* nextGeneration followed pass by pass, from every generation of each width.
NewLoop ==
    /\ pc = "new"
    /\ \E ruleNumber \in LoopRules, n \in 1..MaxLoopWidth :
        \/ Construct(ruleNumber, Num(n), FALSE, <<>>, FALSE)
        \/ \E init \in {g \in Seqs(Bit, MaxLoopWidth) : Len(g) = n} :
               Construct(ruleNumber, Num(n), TRUE, init, FALSE)

NextLoop ==
    \/ NewLoop
    \/ BeginNextGeneration
    \/ CellStep
    \/ EndNextGeneration

SpecLoop == Init /\ [][NextLoop]_vars

\* Two instances, the second constructed from the array the caller passed to
\* the first (or both from none), and the calls on them in any order.
NewShared ==
    /\ pc = "new"
    /\ \E ruleNumber \in CallerRules, w \in SharedWidths :
        \/ Construct(ruleNumber, w, FALSE, <<>>, FALSE)
        \/ \E init \in Seqs(Bit, MaxSharedWidth) : Construct(ruleNumber, w, TRUE, init, TRUE)

OtherNew == \E ruleNumber \in CallerRules, w \in SharedWidths : OtherConstruct(ruleNumber, w)

NextShared ==
    \/ NewShared
    \/ OtherNew
    \/ NextGeneration
    \/ OtherNextGeneration
    \/ GetCurrentGeneration("a")
    \/ OtherGetCurrentGeneration

SpecShared == Init /\ [][NextShared]_vars

\* One instance and a caller that keeps the array it passed to the
\* constructor and the arrays nextGeneration returned, and writes to them.
NewHolder ==
    /\ pc = "new"
    /\ \E ruleNumber \in CallerRules, w \in SharedWidths :
        \/ Construct(ruleNumber, w, FALSE, <<>>, FALSE)
        \/ \E init \in Seqs(Bit, MaxSharedWidth + 1) : Construct(ruleNumber, w, TRUE, init, TRUE)

Keep == KeepReturned("a")
WriteInitial == Overwrite("initial") \/ Push("initial") \/ Pop("initial")

NextHolder ==
    \/ NewHolder
    \/ NextGeneration
    \/ GetCurrentGeneration("b")
    \/ Keep
    \/ WriteInitial

SpecHolder == Init /\ [][NextHolder]_vars

\* One runAutomaton call, statement by statement.  The call runs on
\* JavaScript's single thread with nothing to wait for, so it keeps taking
\* its next statement while it has one.
NextDriver ==
    \/ RunAutomaton
    \/ DriverNew
    \/ DriverLog
    \/ DriverPrintInitial
    \/ DriverFor
    \/ DriverNextGeneration
    \/ DriverPrintGeneration
    \/ DriverEnd

SpecDriver == Init /\ [][NextDriver]_vars /\ WF_vars(NextDriver)

----------------------------------------------------------------------------
(* Properties.                                                             *)

BitOf(n, v) == (n \div (2 ^ v)) % 2          \* bit v of n, bit 0 least significant
Current == heap[generation]                  \* contents of this.generation
ValidRule(n) == n \in 0..255
PositiveInteger(w) == IsInteger(w) /\ w >= Unit
Constructed == lastCall.op = "constructor"   \* the latest call was the constructor
ValidArgs == Constructed /\ ValidRule(lastCall.ruleNumber) /\ PositiveInteger(lastCall.width)
Stepped == lastCall.op = "nextGeneration" /\ error = "none"

\* C1: the first nextGeneration after a construction with rule number n sets
\* every cell i to bit v of n, v = 4*left + 2*middle + right being the value
\* of the cell's neighbourhood in the old generation (Wolfram numbering).
C1_WolframNumbering ==
    [][(Constructed /\ pc = "ca" /\ Stepped') =>
        LET W == IntOf(width)
            old == Current
        IN  \A i \in 0..(W - 1) :
                LET v == 4 * old[((i - 1 + W) % W) + 1] + 2 * old[i + 1] + old[((i + 1) % W) + 1]
                IN  Current'[i + 1] = BitOf(lastCall.ruleNumber, v)]_vars

\* C2: a caller's write to the array the latest nextGeneration returned
\* leaves the engine's current generation as it was.
C2_ReturnedIsCopy ==
    [][(lastCall'.op = "mutate" /\ lastCall'.which = "returned") =>
        (generation' = generation /\ Current' = Current)]_vars

\* C3: getCurrentGeneration changes nothing of the engine and returns a new
\* array equal to the current generation; a second call right after a first
\* returns an array equal to the first's; a write to one returned copy
\* changes neither the other copy nor the current generation.
C3_GetCurrentGenerationCopies ==
    [][/\ (lastCall'.op = "getCurrentGeneration") =>
            LET s == lastCall'.slot
            IN  /\ rule' = rule /\ width' = width
                /\ generation' = generation /\ Current' = Current
                /\ copies'[s] \notin {Null, generation', returned'} \cup {copies'[t] : t \in Slots \ {s}}
                /\ heap'[copies'[s]] = Current
                /\ \A a \in (DOMAIN heap \cap DOMAIN heap') \ {copies'[s]} : heap'[a] = heap[a]
                /\ (lastCall.op = "getCurrentGeneration" =>
                        heap'[copies'[s]] = heap[copies[lastCall.slot]])
       /\ (lastCall'.op = "mutate" /\ lastCall'.which \in Slots) =>
            /\ generation' = generation /\ Current' = Current
            /\ \A t \in Slots \ {lastCall'.which} :
                   copies[t] # Null => heap'[copies'[t]] = heap[copies[t]]]_vars

\* A caller wrote to copy "a" while holding copy "b", taken in the same state.
C3_Witness ==
    /\ lastCall.op = "mutate" /\ lastCall.which = "a"
    /\ copies["b"] # Null
    /\ heap[copies["b"]] = Current
    /\ heap[copies["a"]] # Current

\* C4: while an instance exists, the length of the current generation is
\* the width.
C4_LengthIsWidth == pc = "ca" => Num(Len(Current)) = width

\* C5: a constructor call with a rule number outside 0..255 throws the
\* rule-number error and yields no instance, whatever the other arguments;
\* a call with a rule number in 0..255 never throws that error.
C5_InvalidRuleNumber ==
    Constructed =>
        IF ValidRule(lastCall.ruleNumber)
        THEN error # "InvalidRuleNumber"
        ELSE /\ error = "InvalidRuleNumber"
             /\ pc = "thrown" /\ generation = Null /\ rule = <<>> /\ DOMAIN heap = {}

\* Rule number 256 with a width that is itself invalid and an initial generation.
C5_Witness ==
    /\ Constructed /\ lastCall.ruleNumber = 256 /\ lastCall.width <= 0
    /\ lastCall.hasInitial /\ lastCall.initialGeneration # <<>>
    /\ error = "InvalidRuleNumber"

\* C6: a constructor call with a rule number in 0..255 and a width that is
\* not a positive integer throws the width error and yields no instance; a
\* call with a positive integer width never throws that error.
C6_InvalidWidth ==
    (Constructed /\ ValidRule(lastCall.ruleNumber)) =>
        IF PositiveInteger(lastCall.width)
        THEN error # "InvalidWidth"
        ELSE error = "InvalidWidth" /\ pc = "thrown"

\* C7: constructed with valid arguments and an initial generation of length
\* n < width, the current generation is floor((width-n)/2) zeros, the n
\* values, then the remaining zeros.
C7_Centered ==
    (ValidArgs /\ lastCall.hasInitial /\ Len(lastCall.initialGeneration) < IntOf(lastCall.width)) =>
        LET W == IntOf(lastCall.width)
            n == Len(lastCall.initialGeneration)
            lead == (W - n) \div 2
        IN  /\ pc = "ca" /\ error = "none"
            /\ Current = Fill(lead, 0) \o lastCall.initialGeneration \o Fill((W - n) - lead, 0)

\* An odd difference: the three zeros split into one before and two after.
C7_Witness ==
    /\ ValidArgs /\ lastCall.hasInitial /\ pc = "ca"
    /\ lastCall.width = Num(4) /\ lastCall.initialGeneration = <<1>> /\ Current = <<0, 1, 0, 0>>

\* C8: constructed with valid arguments and an initial generation longer
\* than width, the current generation is its first width values.
C8_Truncated ==
    (ValidArgs /\ lastCall.hasInitial /\ Len(lastCall.initialGeneration) > IntOf(lastCall.width)) =>
        /\ pc = "ca" /\ error = "none"
        /\ Len(Current) = IntOf(lastCall.width)
        /\ \A i \in 1..IntOf(lastCall.width) : Current[i] = lastCall.initialGeneration[i]

C8_Witness ==
    /\ ValidArgs /\ lastCall.width = Num(2) /\ lastCall.hasInitial
    /\ lastCall.initialGeneration = <<1, 0, 1, 1>>
    /\ pc = "ca" /\ Current = <<1, 0>>

\* C9: constructed with valid arguments and no initial generation, the
\* current generation has length width, 1 at index floor(width/2) and 0
\* elsewhere.
C9_SingleSeed ==
    (ValidArgs /\ ~lastCall.hasInitial) =>
        LET W == IntOf(lastCall.width)
        IN  /\ pc = "ca" /\ error = "none"
            /\ Len(Current) = W
            /\ \A i \in 0..(W - 1) : Current[i + 1] = (IF 2 * i \in {W - 1, W} THEN 1 ELSE 0)

C9_Witness ==
    /\ ValidArgs /\ ~lastCall.hasInitial /\ pc = "ca"
    /\ lastCall.width = Num(4) /\ Current = <<0, 0, 1, 0>>

\* C10: nextGeneration reads, for cell i, the cells i-1, i and i+1 of the old
\* generation, with cell width-1 left of cell 0 and cell 0 right of cell
\* width-1; it reads no index outside 0..width-1, and the new cell is the
\* rule's entry for the three values read.
C10_Wraparound ==
    [][Stepped' =>
        LET W == IntOf(width)
            old == Current
        IN  /\ Len(reads') = W
            /\ \A i \in 0..(W - 1) :
                LET l == IF i = 0 THEN W - 1 ELSE i - 1
                    r == IF i = W - 1 THEN 0 ELSE i + 1
                IN  /\ reads'[i + 1] = <<l, i, r>>
                    /\ {l, i, r} \subseteq 0..(Len(old) - 1)
                    /\ Current'[i + 1] = rule[8 - (4 * old[l + 1] + 2 * old[i + 1] + old[r + 1])]]_vars

\* A step at width 2: each cell has the other one on both sides.
C10_Witness ==
    /\ Stepped
    /\ width = Num(2) /\ reads = <<<<1, 0, 1>>, <<0, 1, 0>>>> /\ Current = <<1, 0>>

\* C13: with an initial generation of 0s and 1s (or none), every cell of the
\* current generation is 0 or 1 after any number of nextGeneration calls.
C13_CellsAreBits ==
    pc = "ca" => \A i \in 1..Len(Current) : Current[i] \in {0, 1}

\* Rule 90 has turned [0,1,0] into [1,0,1].
C13_Witness ==
    /\ Stepped /\ width = Num(3) /\ Current = <<1, 0, 1>>
    /\ rule = <<0, 1, 0, 1, 1, 0, 1, 0>>

\* C17: the rule table built from rule number n has 8 entries, each 0 or 1,
\* and its entry p is the output n assigns to the neighbourhood of value
\* 7-p, that is bit 7-p of n.
C17_RuleTable ==
    (Constructed /\ pc = "ca") =>
        /\ Len(rule) = 8
        /\ \A p \in 0..7 : rule[p + 1] \in {0, 1} /\ rule[p + 1] = BitOf(lastCall.ruleNumber, 7 - p)

\* C18: the constructor stores its width argument and the table of its rule
\* number, and no later call changes this.rule or this.width.
C18_RuleAndWidthFixed ==
    [][/\ (lastCall'.op = "constructor" /\ pc' = "ca") =>
            /\ width' = lastCall'.width
            /\ Len(rule') = 8
            /\ \A p \in 0..7 : rule'[p + 1] = Number(PadStart(ToString2(lastCall'.ruleNumber), 8, "0")[8 - p])
       /\ pc = "ca" => (pc' = "ca" /\ rule' = rule /\ width' = width)]_vars

\* Both operations have been called on an instance of rule 30 and width 2.
C18_Witness ==
    /\ lastCall.op = "getCurrentGeneration" /\ returned # Null
    /\ width = Num(2) /\ rule = <<0, 1, 1, 1, 1, 0, 0, 0>>

\* The rule's entry for cell i of the generation old of width W.
Entry(old, i, W) ==
    rule[8 - (4 * old[((i - 1 + W) % W) + 1] + 2 * old[i + 1] + old[((i + 1) % W) + 1])]

InCall == pc = "nextGeneration"      \* a nextGeneration call is running

\* C11: while a nextGeneration call runs, this.generation is still the array
\* the call began with and that array is unchanged; each cell filled so far
\* is the rule's entry for its neighbourhood in that generation; the array
\* being filled becomes this.generation only once all width cells are filled.
C11_SimultaneousUpdate ==
    [][/\ InCall' =>
            /\ generation' # frame'.nextGen
            /\ Current' = frame'.old
            /\ \A k \in 0..(frame'.i - 1) :
                   heap'[frame'.nextGen][k + 1] = Entry(frame'.old, k, IntOf(width))
       /\ InCall => (generation' # generation <=> ~InCall')
       /\ (InCall /\ ~InCall') =>
            /\ frame.i = IntOf(width)
            /\ generation' = frame.nextGen
            /\ Current' = heap[frame.nextGen]]_vars

\* Rule 90, width 3, from [1,0,0]: cell 0 is filled and has changed from 1 to
\* 0, while cell 1, whose left neighbour it is, is still to come.
C11_Witness ==
    /\ InCall /\ frame.i = 1 /\ width = Num(3)
    /\ rule = <<0, 1, 0, 1, 1, 0, 1, 0>>
    /\ frame.old = <<1, 0, 0>>
    /\ heap[frame.nextGen][1] = 0

\* C12: the first nextGeneration of an instance constructed with rule number
\* 90 sets every cell to the exclusive-or of its two neighbours in the
\* generation the call began with; at width 7, [0,0,0,1,0,0,0] becomes
\* [0,0,1,0,1,0,0].
C12_Rule90 ==
    [][(Constructed /\ lastCall.ruleNumber = 90 /\ InCall /\ ~InCall') =>
        LET W == IntOf(width)
            old == frame.old
        IN  /\ Len(Current') = W
            /\ \A i \in 0..(W - 1) :
                   Current'[i + 1] = (old[((i - 1 + W) % W) + 1] + old[((i + 1) % W) + 1]) % 2
            /\ old = <<0, 0, 0, 1, 0, 0, 0>> => Current' = <<0, 0, 1, 0, 1, 0, 0>>]_vars

C12_Witness ==
    /\ Stepped /\ width = Num(7)
    /\ rule = <<0, 1, 0, 1, 1, 0, 1, 0>>
    /\ Current = <<0, 0, 1, 0, 1, 0, 0>>

OtherCalls == {"other.constructor", "other.nextGeneration", "other.getCurrentGeneration"}
ThisCalls == {"nextGeneration", "getCurrentGeneration"}

\* C14: two instances never hold the same generation array, also when both
\* were constructed from the same initialGeneration array; a call on the
\* second instance leaves the first one's rule table, width and current
\* generation unchanged, and a nextGeneration or getCurrentGeneration call on
\* the first leaves the second one's unchanged, in every order of the calls.
C14_NoSharedState ==
    [][/\ (generation' # Null /\ other' # NoInstance) => generation' # other'.generation
       /\ lastCall'.op \in OtherCalls =>
            /\ rule' = rule /\ width' = width /\ generation' = generation
            /\ Current' = Current
       /\ (lastCall'.op \in ThisCalls /\ other # NoInstance) =>
            /\ other' = other
            /\ heap'[other.generation] = heap[other.generation]]_vars

\* Both instances were constructed from the same array [0,1] at width 2; the
\* second has been stepped since and the first still holds [0,1].
C14_Witness ==
    /\ lastCall.op = "other.nextGeneration"
    /\ initialGeneration # Null /\ heap[initialGeneration] = <<0, 1>>
    /\ width = Num(2) /\ other.width = Num(2)
    /\ returned = Null
    /\ Current = <<0, 1>>
    /\ heap[other.generation] # <<0, 1>>

WroteInitial == lastCall.op = "mutate" /\ lastCall.which = "initial"

\* C19: the constructor leaves the caller's initialGeneration array with the
\* contents it was passed with, whatever its length, and this.generation is
\* never that array; no call on the instance changes the caller's array
\* afterwards, and a write of the caller to it leaves this.generation and its
\* contents unchanged.
C19_InitialGenerationCopied ==
    [][/\ (Constructed' /\ initialGeneration' # Null) =>
            /\ heap'[initialGeneration'] = lastCall'.initialGeneration
            /\ pc' = "ca" => generation' # initialGeneration'
       /\ (initialGeneration # Null /\ ~WroteInitial') =>
            /\ initialGeneration' = initialGeneration
            /\ generation' # initialGeneration
            /\ heap'[initialGeneration] = heap[initialGeneration]
       /\ WroteInitial' =>
            /\ generation' = generation
            /\ Current' = Current]_vars

\* The caller passed [1,0,1] at width 2, stepped the instance, and then
\* cleared the first cell of its own array.
C19_Witness ==
    /\ WroteInitial
    /\ returned # Null
    /\ width = Num(2)
    /\ heap[initialGeneration] = <<0, 0, 1>>
    /\ Len(Current) = 2

\* The arrays the caller holds from earlier calls and from before construction.
HeldArrays == {copies[s] : s \in Slots} \cup {initialGeneration}

\* C20: a nextGeneration call makes this.generation an array that none of the
\* caller's variables held before the call, and every array the caller holds
\* from an earlier nextGeneration or getCurrentGeneration call has the same
\* contents after the call as before it.
C20_PreviousGenerationIntact ==
    [][(lastCall'.op = "nextGeneration" /\ error' = "none") =>
        /\ copies' = copies
        /\ \A a \in HeldArrays \ {Null} :
               /\ generation' # a
               /\ heap'[a] = heap[a]]_vars

\* The caller kept the array an earlier nextGeneration returned and a copy
\* from getCurrentGeneration; a later nextGeneration has made the current
\* generation differ from the kept one.
C20_Witness ==
    /\ lastCall.op = "nextGeneration"
    /\ copies["a"] # Null /\ copies["b"] # Null
    /\ heap[copies["a"]] # Current
    /\ Len(heap[copies["a"]]) = Len(Current)

\* The lines printGeneration has logged, in the order logged.
GenerationLines ==
    LET logged == SelectSeq(driver.console, LAMBDA e : e.by = "printGeneration")
    IN  [k \in 1..Len(logged) |-> logged[k].line]

\* The generation k steps after gen under rule table r at width w.
RECURSIVE Iterate(_, _, _, _)
Iterate(r, gen, w, k) == IF k = 0 THEN gen ELSE NextGen(r, Iterate(r, gen, w, k - 1), w)

\* The line printed for the generation k steps after the initial one.
HistoryLine(k) ==
    Render(Iterate(rule, createInitialGeneration(IntOf(driver.width)), IntOf(driver.width), k))

\* C16: a runAutomaton(rule, width, n) call with a valid rule number, a
\* positive integer width and an integer n >= 0 reaches its return; it has
\* then made exactly n nextGeneration calls and printed exactly n + 1
\* generation lines; at all times the (k+1)-th generation line is the
\* rendering of the generation after k steps, a nextGeneration call is made
\* only when every earlier generation has been printed, and a line is
\* printed only when it is the one for the latest step.
C16_DriverPrintsHistory ==
    /\ [](/\ \A k \in 1..Len(GenerationLines) : GenerationLines[k] = HistoryLine(k - 1)
          /\ driver.pc = "done" =>
                /\ driver.calls = driver.generations
                /\ Len(GenerationLines) = driver.generations + 1)
    /\ [][/\ driver'.calls # driver.calls =>
                /\ driver'.calls = driver.calls + 1
                /\ Len(GenerationLines) = driver.calls + 1
          /\ GenerationLines' # GenerationLines =>
                /\ Len(GenerationLines') = Len(GenerationLines) + 1
                /\ Len(GenerationLines) = driver.calls]_vars
    /\ (driver.pc = "new") ~> (driver.pc = "done")

\* runAutomaton(30, 3, 3) has returned: four generation lines, the second
\* one different from the first.
C16_Witness ==
    /\ driver.pc = "done"
    /\ driver.rule = 30 /\ driver.width = Num(3) /\ driver.generations = 3
    /\ driver.calls = 3
    /\ Len(GenerationLines) = 4
    /\ GenerationLines[1] = <<" ", "#", " ">>
    /\ GenerationLines[2] # GenerationLines[1]

====
